---- MODULE Spec2Model ----
(***************************************************************************)
(* Model of the in-product agent demo: the team roster tool                *)
(* (src/src/tools/team.py), the streaming renderer run_agent               *)
(* (src/src/agent.py) and the interactive loop main (src/main.py).         *)
(*                                                                         *)
(* A Python str is a sequence of one-character strings, so that lower(),   *)
(* strip(), len(), slicing, endswith() and the `in` substring test are     *)
(* computed and not assumed.  None is the value None_ below.               *)
(***************************************************************************)
EXTENDS Integers, Sequences, FiniteSets, TLC

VARIABLES
    \* ---- get_team_members (src/src/tools/team.py)
    MOCK_TEAM_MEMBERS,   \* the module-level roster
    role_filter,         \* argument: None_ or a str
    department_filter,   \* argument: None_ or a str
    include_inactive,    \* argument: bool
    result,              \* the returned text as its segments; <<>> before the call returns
    \* ---- main (src/main.py)
    pc,                  \* where main is: START, WAIT_FOR_INPUT, DISPATCHING,
                         \* STREAMING_OUTPUT, EXIT, CONFIG_ERROR (returned at line 45), RAISED
    env,                 \* os.environ: the three variables the program reads or names
    user_input,          \* main's user_input, run_agent's user_message
    exc,                 \* the exception that escaped main, "none" if none did
    \* ---- run_agent (src/src/agent.py)
    verbose,             \* argument verbose
    request,             \* the "messages" list handed to agent.astream_events
    event,               \* the loop variable event: the event being rendered
    n_events,            \* events consumed from the stream in this turn
    final_response,      \* local final_response
    in_reasoning,        \* local in_reasoning
    \* ---- observation
    out,                 \* stdout from the last prompt on: characters and literal pieces
    lines,               \* the raw lines input() has returned, in order
    dispatched           \* the user_message of every run_agent call, in order

team_vars ==
    <<MOCK_TEAM_MEMBERS, role_filter, department_filter, include_inactive, result>>

main_vars == <<pc, env, user_input, exc, lines, dispatched>>

agent_vars == <<verbose, request, event, n_events, final_response, in_reasoning>>

vars == <<team_vars, main_vars, agent_vars, out>>

\* ------------------------------------------------------------------------
\* Python str helpers
\* ------------------------------------------------------------------------

\* Python's None, as an Optional[str] argument value.
None_ == [none |-> TRUE]

\* An Optional[str] argument that holds the str s.
Some(s) == [none |-> FALSE, str |-> s]

UpperLetters ==
    <<"A","B","C","D","E","F","G","H","I","J","K","L","M",
      "N","O","P","Q","R","S","T","U","V","W","X","Y","Z">>

LowerLetters ==
    <<"a","b","c","d","e","f","g","h","i","j","k","l","m",
      "n","o","p","q","r","s","t","u","v","w","x","y","z">>

\* str.lower() on one character.
LowerChar(c) ==
    IF \E i \in 1..26 : UpperLetters[i] = c
    THEN LowerLetters[CHOOSE i \in 1..26 : UpperLetters[i] = c]
    ELSE c

\* str.lower()
lower(s) == [i \in 1..Len(s) |-> LowerChar(s[i])]

\* The characters str.strip() removes.
Whitespace == {" ", "\t", "\n", "\r"}

\* str.strip()
strip(s) ==
    LET keep == {i \in 1..Len(s) : s[i] \notin Whitespace}
    IN  IF keep = {} THEN <<>>
        ELSE LET lo == CHOOSE i \in keep : \A j \in keep : i <= j
                 hi == CHOOSE i \in keep : \A j \in keep : j <= i
             IN  SubSeq(s, lo, hi)

\* Python's `sub in s` on str.
str_in(sub, s) ==
    \E i \in 0..(Len(s) - Len(sub)) : SubSeq(s, i + 1, i + Len(sub)) = sub

\* str.endswith("\n")
endswith_newline(s) == Len(s) > 0 /\ s[Len(s)] = "\n"

\* Truthiness of an Optional[str]: None and "" are falsy.
Truthy(opt) == ~opt.none /\ Len(opt.str) > 0

\* ------------------------------------------------------------------------
\* The roster
\* ------------------------------------------------------------------------

admin == <<"a","d","m","i","n">>
member == <<"m","e","m","b","e","r">>
viewer == <<"v","i","e","w","e","r">>

\* TeamMember.role, as documented on the field.
Roles == {admin, member, viewer}

\* TeamMember.status, as documented on the field.
Statuses == {"active", "invited", "deactivated"}

Engineering == <<"E","n","g","i","n","e","e","r","i","n","g">>
Product == <<"P","r","o","d","u","c","t">>
Design == <<"D","e","s","i","g","n">>
Marketing == <<"M","a","r","k","e","t","i","n","g">>
Sales == <<"S","a","l","e","s">>
Finance == <<"F","i","n","a","n","c","e">>

TeamMember(id, name, email, role, department, last_active, status) ==
    [id |-> id, name |-> name, email |-> email, role |-> role,
     department |-> department, last_active |-> last_active, status |-> status]

\* The shipped roster, in its order.
Fixture ==
    << TeamMember("usr_001", "Sarah Chen", "sarah.chen@acme.com", admin, Engineering, "now-2h", "active"),
       TeamMember("usr_002", "Marcus Johnson", "marcus.j@acme.com", admin, Product, "now-5h", "active"),
       TeamMember("usr_003", "Emily Rodriguez", "emily.r@acme.com", member, Engineering, "now-1d", "active"),
       TeamMember("usr_004", "James Wilson", "james.w@acme.com", member, Design, "now-12h", "active"),
       TeamMember("usr_005", "Priya Patel", "priya.p@acme.com", member, Engineering, "now-1h", "active"),
       TeamMember("usr_006", "Alex Kim", "alex.k@acme.com", viewer, Marketing, "now-3d", "active"),
       TeamMember("usr_007", "Jordan Lee", "jordan.l@acme.com", member, Sales, "now-8h", "active"),
       TeamMember("usr_008", "Taylor Swift", "taylor.s@acme.com", viewer, Finance, "N/A", "invited") >>

\* The rosters considered: the shipped fixture, and the fixture with one record
\* given another documented status or another documented role (the roster
\* stands for data that "would come from your database/API"; the shipped
\* fixture has no deactivated member).  Ids, names and order are the fixture's.
Rosters ==
    {Fixture}
    \cup {[Fixture EXCEPT ![i].status = st] : i \in 1..Len(Fixture), st \in Statuses}
    \cup {[Fixture EXCEPT ![i].role = ro] : i \in 1..Len(Fixture), ro \in Roles}

\* The str values tried for role_filter: "", exact, other letter case, a proper
\* prefix of a role, an unknown role.
RoleFilterStrs ==
    { <<>>, admin, member, viewer,
      <<"A","D","M","I","N">>, <<"V","i","e","w","e","r">>,
      <<"a","d","m","i">>, <<"o","w","n","e","r">> }

\* The str values tried for department_filter: "", a full name, substrings in
\* several letter cases, a substring of two departments, an unknown one, and
\* a name with a trailing blank.
DepartmentFilterStrs ==
    { <<>>, Engineering, <<"e","n","g">>, <<"E","N","G">>, <<"i","n","g">>,
      <<"S","A","L","E","S">>, <<"x","y","z">>, <<"S","a","l","e","s"," ">> }

OptionalStr(S) == {None_} \cup {Some(s) : s \in S}

\* ------------------------------------------------------------------------
\* get_team_members
\* ------------------------------------------------------------------------

\* A role comparison that heeds the letter case.
RoleMatchesCaseSensitive(m, rf) == m.role = rf

\* team.py:149  m.role.lower() == role_filter.lower()
RoleMatches(m, rf) == lower(m.role) = lower(rf)

\* team.py:152  department_filter.lower() in m.department.lower()
DepartmentMatches(m, df) == str_in(lower(df), lower(m.department))

\* team.py:155  m.status != "deactivated"
NotDeactivated(m) == m.status # "deactivated"

\* team.py:148-149
ApplyRoleFilter(members, rf) ==
    IF Truthy(rf)
    THEN SelectSeq(members, LAMBDA m : RoleMatches(m, rf.str))
    ELSE members

\* team.py:151-152
ApplyDepartmentFilter(members, df) ==
    IF Truthy(df)
    THEN SelectSeq(members, LAMBDA m : DepartmentMatches(m, df.str))
    ELSE members

\* team.py:154-155
ApplyInactiveFilter(members, inc) ==
    IF ~inc THEN SelectSeq(members, NotDeactivated) ELSE members

\* team.py:145-155: the three passes, in the code's order.
Filtered(all, rf, df, inc) ==
    ApplyInactiveFilter(ApplyDepartmentFilter(ApplyRoleFilter(all, rf), df), inc)

\* team.py:161-163
admins(members) == SelectSeq(members, LAMBDA m : m.role = admin)
regular_members(members) == SelectSeq(members, LAMBDA m : m.role = member)

\* A viewers group that takes every member who is no admin.
viewersNotAdmin(members) == SelectSeq(members, LAMBDA m : m.role # admin)

viewers(members) == SelectSeq(members, LAMBDA m : m.role = viewer)

\* team.py:166
status_icon(m) ==
    IF m.status = "active" THEN "done"
    ELSE IF m.status = "invited" THEN "pending" ELSE "blocked"

\* team.py:165-167: one rendered member, as the fields the f-string prints.
format_member(m) ==
    [seg |-> "member", name |-> m.name, email |-> m.email, icon |-> status_icon(m),
     department |-> m.department, last_active |-> m.last_active]

\* A "### <title>" heading followed by the section's members (team.py:171-181);
\* nothing for an empty group.
Section(title, group) ==
    IF Len(group) > 0
    THEN <<[seg |-> "heading", title |-> title]>>
         \o [i \in 1..Len(group) |-> format_member(group[i])]
    ELSE <<>>

\* An invited count that takes every member who is not active.
invited_countNotActive(members) ==
    Len(SelectSeq(members, LAMBDA m : m.status # "active"))

\* team.py:184
invited_count(members) == Len(SelectSeq(members, LAMBDA m : m.status = "invited"))

\* team.py:185-186
Footer(members) ==
    IF invited_count(members) # 0
    THEN <<[seg |-> "pending_invitations", count |-> invited_count(members)]>>
    ELSE <<>>

\* team.py:158
NoResults == <<[seg |-> "no_team_members_found"]>>

\* team.py:145-188: the returned text, as the sequence of its segments.
get_team_members(all, rf, df, inc) ==
    LET members == Filtered(all, rf, df, inc)
    IN  IF Len(members) = 0
        THEN NoResults
        ELSE <<[seg |-> "title", total |-> Len(members)]>>
             \o Section("Admins", admins(members))
             \o Section("Members", regular_members(members))
             \o Section("Viewers", viewers(members))
             \o Footer(members)

\* ------------------------------------------------------------------------
\* Claims about get_team_members (checked under SpecTeam)
\* ------------------------------------------------------------------------

\* The call has returned.
Returned == result # <<>>

IsNoResults(res) == Len(res) = 1 /\ res[1].seg = "no_team_members_found"

\* Positions of the rendered members in a returned text.
MemberPositions(res) == {i \in 1..Len(res) : res[i].seg = "member"}

\* Names of the members a returned text renders.
RenderedNames(res) == {res[i].name : i \in MemberPositions(res)}

\* Records of the roster, as a set.
RosterSet == {MOCK_TEAM_MEMBERS[i] : i \in 1..Len(MOCK_TEAM_MEMBERS)}

\* Position of the record named n in the roster.
RosterIndex(n) ==
    CHOOSE i \in 1..Len(MOCK_TEAM_MEMBERS) : MOCK_TEAM_MEMBERS[i].name = n

\* The status predicate of the claims: deactivated members only on request.
StatusPredicate(m) == include_inactive \/ m.status # "deactivated"

\* The predicates as C1 words them: every supplied filter value, the empty
\* string included, is compared with the record.
SuppliedRolePredicate(m) ==
    role_filter.none \/ lower(m.role) = lower(role_filter.str)

SuppliedDepartmentPredicate(m) ==
    department_filter.none \/ str_in(lower(department_filter.str), lower(m.department))

SuppliedIntersection ==
    {m \in RosterSet :
        SuppliedRolePredicate(m) /\ SuppliedDepartmentPredicate(m) /\ StatusPredicate(m)}

\* C1 as stated: for every argument combination, the empty string included, the
\* rendered members are exactly the records satisfying all three predicates,
\* and when no record satisfies them the fixed no-results text is returned.
C1_AsStated ==
    Returned =>
        IF SuppliedIntersection = {}
        THEN IsNoResults(result)
        ELSE /\ ~IsNoResults(result)
             /\ RenderedNames(result) = {m.name : m \in SuppliedIntersection}

\* The predicates as the code applies them: a filter that is None or the empty
\* string is not applied.
AppliedRolePredicate(m) ==
    (~role_filter.none /\ role_filter.str # <<>>) => lower(m.role) = lower(role_filter.str)

AppliedDepartmentPredicate(m) ==
    (~department_filter.none /\ department_filter.str # <<>>)
        => str_in(lower(department_filter.str), lower(m.department))

Surviving ==
    {m \in RosterSet :
        AppliedRolePredicate(m) /\ AppliedDepartmentPredicate(m) /\ StatusPredicate(m)}

\* C1 (amended): with a filter that is None or "" counting as no filter, the
\* rendered members are exactly the records whose role equals role_filter
\* ignoring case, whose department contains department_filter ignoring case,
\* and that are not deactivated unless include_inactive; when no record
\* survives, the call returns exactly the fixed no-results text.
C1_FilterIntersection ==
    Returned =>
        IF Surviving = {}
        THEN result = NoResults
        ELSE /\ ~IsNoResults(result)
             /\ RenderedNames(result) = {m.name : m \in Surviving}

\* C1 witness: an empty-string role filter with a department filter in another
\* letter case, and members rendered.
C1_Witness ==
    /\ Returned
    /\ role_filter = Some(<<>>)
    /\ department_filter = Some(<<"E","N","G">>)
    /\ ~include_inactive
    /\ \E m \in RosterSet : m.status = "deactivated" /\ m.department = Engineering
    /\ Cardinality(RenderedNames(result)) = 2

\* The heading a role is rendered under.
HeadingOf(role) ==
    IF role = admin THEN "Admins" ELSE IF role = member THEN "Members" ELSE "Viewers"

\* The heading above position i of a returned text.
SectionAt(res, i) ==
    LET hs == {j \in 1..(i - 1) : res[j].seg = "heading"}
    IN  IF hs = {} THEN "none"
        ELSE res[CHOOSE j \in hs : \A k \in hs : k <= j].title

\* C2: every surviving member is counted in the "N total" header and rendered
\* exactly once, under the heading of its role, each heading appears at most
\* once, and within a section the members keep their roster order.
C2_GroupingStableTotal ==
    (Returned /\ ~IsNoResults(result)) =>
        /\ result[1].seg = "title"
        /\ result[1].total = Cardinality(Surviving)
        /\ Cardinality(MemberPositions(result)) = Cardinality(Surviving)
        /\ \A m \in Surviving :
              \E i \in MemberPositions(result) :
                  /\ result[i].name = m.name
                  /\ SectionAt(result, i) = HeadingOf(m.role)
                  /\ \A j \in MemberPositions(result) : result[j].name = m.name => j = i
        /\ \A i, j \in 1..Len(result) :
              (i < j /\ result[i].seg = "heading" /\ result[j].seg = "heading")
                  => result[i].title # result[j].title
        /\ \A i, j \in MemberPositions(result) :
              (i < j /\ SectionAt(result, i) = SectionAt(result, j))
                  => RosterIndex(result[i].name) < RosterIndex(result[j].name)

\* C2 witness: all three sections are rendered, the Viewers section with three
\* members.
C2_Witness ==
    /\ Returned
    /\ \A t \in {"Admins", "Members", "Viewers"} :
          \E i \in 1..Len(result) : result[i].seg = "heading" /\ result[i].title = t
    /\ Cardinality({i \in MemberPositions(result) : SectionAt(result, i) = "Viewers"}) = 3

\* Positions of the pending-invitation footer in a returned text.
FooterPositions(res) == {i \in 1..Len(res) : res[i].seg = "pending_invitations"}

\* C3: the footer is present iff some surviving member is invited, it is the
\* last segment, and its number is the count of surviving invited members.
C3_InvitedFooter ==
    Returned =>
        LET invited == {m \in Surviving : m.status = "invited"}
        IN  /\ (FooterPositions(result) # {}) <=> (invited # {})
            /\ \A i \in FooterPositions(result) :
                  i = Len(result) /\ result[i].count = Cardinality(invited)

\* C3 witness: two invited members in the roster, one of them filtered out, and
\* a footer showing 1.
C3_Witness ==
    /\ Returned
    /\ Cardinality({m \in RosterSet : m.status = "invited"}) = 2
    /\ FooterPositions(result) # {}
    /\ result[Len(result)].count = 1

\* ------------------------------------------------------------------------
\* run_agent (src/src/agent.py)
\* ------------------------------------------------------------------------

\* agent.py:23-26  the ANSI escapes, each one glyph of the output.
Style == [ITALIC |-> "ESC[3m", DIM |-> "ESC[2m", RESET |-> "ESC[0m"]

\* agent.py:210  the length above which a tool-argument value is cut.
TruncLimit == 100

\* Events consumed per run_agent call in SpecAgent.
MaxEvents == 3

\* The longest tool-argument value tried.
MaxValueLen == 103

Digits == <<"0","1","2","3","4","5","6","7","8","9">>

\* A text of n characters whose i-th character tells i modulo 10.
TextOfLen(n) == [i \in 1..n |-> Digits[(i % 10) + 1]]

\* Tool-argument values: str, bool, int and None.
StrValue(s) == [type |-> "str", chars |-> s]
IntValue(digits) == [type |-> "int", chars |-> digits]
BoolValue(b) == [type |-> "bool", chars |-> IF b THEN <<"T","r","u","e">> ELSE <<"F","a","l","s","e">>]
NoneValue == [type |-> "NoneType", chars |-> <<"N","o","n","e">>]

\* str(value)
PyStr(value) ==
    CASE value.type = "str" -> value.chars
      [] value.type = "int" -> value.chars
      [] value.type = "bool" -> IF value.chars[1] = "T" THEN <<"T","r","u","e">> ELSE <<"F","a","l","s","e">>
      [] OTHER -> <<"N","o","n","e">>

\* What an f-string replacement field prints for a value: format(value, ""),
\* which for str, int, bool and None is its str().
PyFormat(value) ==
    CASE value.type = "str" -> value.chars
      [] OTHER -> PyStr(value)

\* A cut that also takes the values of exactly TruncLimit characters.
display_valueFromLimit(value) ==
    IF Len(PyStr(value)) >= TruncLimit
    THEN SubSeq(PyStr(value), 1, TruncLimit) \o <<".", ".", ".">>
    ELSE PyFormat(value)

\* agent.py:210  str(value)[:100] + "..." if len(str(value)) > 100 else value,
\* as the characters line 211 then prints for it.
display_value(value) ==
    IF Len(PyStr(value)) > TruncLimit
    THEN SubSeq(PyStr(value), 1, TruncLimit) \o <<".", ".", ".">>
    ELSE PyFormat(value)

\* agent.py:208-211  the lines printed for the items of tool_input.
RECURSIVE PrintItems(_)
PrintItems(items) ==
    IF items = <<>> THEN <<>>
    ELSE <<"   ">> \o Head(items).key \o <<":", " ">> \o display_value(Head(items).value)
         \o <<"\n">> \o PrintItems(Tail(items))

\* The renderer's state while one event is handled.
Render(o, r, f) == [out |-> o, in_reasoning |-> r, final_response |-> f]

\* agent.py:184-190 and 192-197: a piece of answer text.
EmitText(st, text) ==
    IF text = <<>> THEN st
    ELSE Render(st.out
                  \o (IF st.in_reasoning THEN <<Style.RESET, "\n", "\n", "\n">> ELSE <<>>)
                  \o text,
                FALSE,
                st.final_response \o text)

\* agent.py:175-182: a reasoning block, verbose.
EmitReasoning(st, text) ==
    Render(st.out
              \o (IF ~st.in_reasoning
                  THEN <<"\n", "brain", " ", Style.DIM, Style.ITALIC>> ELSE <<>>)
              \o text,
           TRUE,
           st.final_response)

\* agent.py:174-190: one content block.
RenderBlock(st, block, verb) ==
    IF block.type = "reasoning" /\ verb THEN EmitReasoning(st, block.text)
    ELSE IF block.type = "text" THEN EmitText(st, block.text)
    ELSE st

\* agent.py:174  for block in chunk.content_blocks
RECURSIVE RenderBlocks(_, _, _)
RenderBlocks(st, blocks, verb) ==
    IF blocks = <<>> THEN st
    ELSE RenderBlocks(RenderBlock(st, Head(blocks), verb), Tail(blocks), verb)

\* agent.py:169-197: an on_chat_model_stream event.
RenderChunk(st, chunk, verb) ==
    IF chunk.content_blocks # <<>>
    THEN RenderBlocks(st, chunk.content_blocks, verb)
    ELSE EmitText(st, chunk.content)

\* agent.py:200-212: an on_tool_start event, verbose.
RenderToolStart(st, ev) ==
    Render(st.out
              \o (IF st.in_reasoning THEN <<Style.RESET, "\n", "\n">> ELSE <<>>)
              \o <<"\n", "wrench", " Calling tool: ", ev.name, "\n">>
              \o (IF ev.input.is_dict THEN PrintItems(ev.input.items) ELSE <<>>)
              \o <<"\n">>,
           FALSE,
           st.final_response)

\* agent.py:215-216: an on_tool_end event, verbose.
RenderToolEnd(st) ==
    Render(st.out \o <<"check", " Tool completed", "\n", "\n">>,
           st.in_reasoning, st.final_response)

\* agent.py:166-216: the body of the async-for, for one event.
RenderEvent(st, ev, verb) ==
    IF ev.event = "on_chat_model_stream" THEN RenderChunk(st, ev.chunk, verb)
    ELSE IF ev.event = "on_tool_start" /\ verb THEN RenderToolStart(st, ev)
    ELSE IF ev.event = "on_tool_end" /\ verb THEN RenderToolEnd(st)
    ELSE st

\* agent.py:218-220  the trailing print().
TrailingNewline(final) ==
    IF final # <<>> /\ ~endswith_newline(final) THEN <<"\n">> ELSE <<>>

\* Messages that keep those of the turn before.
MessagesWithHistory(user_message) ==
    request \o <<[role |-> "user", content |-> user_message]>>

\* agent.py:163  the messages handed to the agent for a user message.
Messages(user_message) == <<[role |-> "user", content |-> user_message]>>

\* ---- the events tried

ReasoningBlock(t) == [type |-> "reasoning", text |-> t]
TextBlock(t) == [type |-> "text", text |-> t]
OtherBlock == [type |-> "tool_call_chunk", text |-> <<>>]

Chunk(blocks, content) ==
    [event |-> "on_chat_model_stream",
     chunk |-> [content_blocks |-> blocks, content |-> content]]

ToolStart(name, is_dict, items) ==
    [event |-> "on_tool_start", name |-> name,
     input |-> [is_dict |-> is_dict, items |-> items]]

ToolEnd == [event |-> "on_tool_end"]
ChainStart == [event |-> "on_chain_start"]

Item(k, v) == [key |-> k, value |-> v]

\* Chunks with content blocks (reasoning, answer text with and without a final
\* newline, empty texts, a block of another type, both orders of reasoning and
\* text in one chunk) and chunks with plain content.
Chunks ==
    { Chunk(<<ReasoningBlock(<<"r">>)>>, <<>>),
      Chunk(<<ReasoningBlock(<<>>)>>, <<>>),
      Chunk(<<TextBlock(<<"a">>)>>, <<>>),
      Chunk(<<TextBlock(<<"a", "\n">>)>>, <<>>),
      Chunk(<<TextBlock(<<>>)>>, <<"c">>),
      Chunk(<<OtherBlock>>, <<>>),
      Chunk(<<ReasoningBlock(<<"r">>), TextBlock(<<"a">>)>>, <<>>),
      Chunk(<<TextBlock(<<"a">>), ReasoningBlock(<<"r">>)>>, <<>>),
      Chunk(<<>>, <<>>),
      Chunk(<<>>, <<"b">>),
      Chunk(<<>>, <<"b", "\n">>) }

\* The values tried as tool arguments: str values around the limit, and
\* values that are not str.
Values ==
    {StrValue(TextOfLen(n)) :
        n \in {0, TruncLimit - 1, TruncLimit, TruncLimit + 1, MaxValueLen}}
    \cup {IntValue(TextOfLen(TruncLimit)), IntValue(TextOfLen(TruncLimit + 1)),
          BoolValue(TRUE), NoneValue}

\* Tool starts: an input that is no dict, an empty dict, one argument of every
\* value tried, and two arguments of which the first is cut.
ToolStarts ==
    { ToolStart("get_team_members", FALSE, <<>>),
      ToolStart("get_subscription_info", TRUE, <<>>),
      ToolStart("search", TRUE,
                <<Item(<<"q">>, StrValue(TextOfLen(MaxValueLen))),
                  Item(<<"k">>, StrValue(TextOfLen(TruncLimit)))>>) }
    \cup {ToolStart("search", TRUE, <<Item(<<"q">>, v)>>) : v \in Values}

\* No event yet.
NoEvent == [event |-> "none"]

\* agent.py:158-165: run_agent is entered and the request is handed to the agent.
Dispatch ==
    /\ pc = "DISPATCHING"
    /\ request' = Messages(user_input)
    /\ final_response' = <<>>
    /\ in_reasoning' = FALSE
    /\ n_events' = 0
    /\ event' = NoEvent
    /\ dispatched' = Append(dispatched, user_input)
    /\ pc' = "STREAMING_OUTPUT"
    /\ UNCHANGED <<team_vars, env, user_input, exc, lines, verbose, out>>

\* agent.py:162-216: the stream yields the event ev and the loop body renders it.
Consume(ev, bound) ==
    /\ pc = "STREAMING_OUTPUT"
    /\ n_events < bound
    /\ LET st == RenderEvent(Render(out, in_reasoning, final_response), ev, verbose)
       IN  /\ out' = st.out
           /\ in_reasoning' = st.in_reasoning
           /\ final_response' = st.final_response
    /\ event' = ev
    /\ n_events' = n_events + 1
    /\ UNCHANGED <<team_vars, main_vars, verbose, request>>

\* agent.py:218-222 and main.py:84,64: the stream ends, run_agent returns, and
\* main goes back to the prompt.
StreamEnd ==
    /\ pc = "STREAMING_OUTPUT"
    /\ out' = out \o TrailingNewline(final_response)
    /\ pc' = "WAIT_FOR_INPUT"
    /\ UNCHANGED <<team_vars, env, user_input, exc, lines, dispatched, agent_vars>>

\* ------------------------------------------------------------------------
\* main (src/main.py) and create_in_product_agent (src/src/agent.py)
\* ------------------------------------------------------------------------

\* Lines read per session in Spec.
MaxLines == 3

\* Events consumed per turn in Spec.
MaxTurnEvents == 2

quit == <<"q","u","i","t">>
exit == <<"e","x","i","t">>
q == <<"q">>

\* main.py:75
QuitCommands == {quit, exit, q}

\* What os.getenv may give for a variable: unset, set to "", set to a value.
EnvValues == {None_, Some(<<>>), Some(<<"x">>)}

Environments ==
    [KAPA_MCP_SERVER_URL : EnvValues, KAPA_API_KEY : EnvValues, OPENAI_API_KEY : EnvValues]

\* agent.py:95-143: what the framework calls after the two checks may do
\* (MultiServerMCPClient.get_tools, ChatOpenAI, create_agent).  They are not
\* code of this repository.  With OPENAI_API_KEY set they are taken to
\* succeed; without it, the model client may be built lazily (an agent is
\* returned), may reject the missing key with a ValueError, or may raise its
\* own error type.
FrameworkOutcomes(e) ==
    IF Truthy(e.OPENAI_API_KEY) THEN {"agent"}
    ELSE {"agent", "ValueError", "OtherError"}

\* agent.py:79-143: the outcomes of create_in_product_agent() called without
\* arguments, as main calls it.
create_in_product_agent(e) ==
    IF ~Truthy(e.KAPA_MCP_SERVER_URL) THEN {"ValueError"}
    ELSE IF ~Truthy(e.KAPA_API_KEY) THEN {"ValueError"}
    ELSE FrameworkOutcomes(e)

\* main.py:27-34
Banner == <<"\n", "rule", "\n", "  Assistant", "\n", "rule", "\n", "\n",
            "Initializing agent...", "\n", "\n">>

\* main.py:39-44
Diagnostic ==
    <<"Error: ", "\n", "\n",
      "Please make sure you have set the following environment variables:", "\n",
      "  - OPENAI_API_KEY", "\n", "  - KAPA_MCP_SERVER_URL", "\n",
      "  - KAPA_API_KEY", "\n">>

\* main.py:48-61
Introduction == <<"introduction", "\n", "Type 'quit' to exit", "\n", "rule", "\n">>

\* main.py:66-67  print() and the prompt of input().
Prompt == <<"\n", "You: ">>

\* main.py:69
GoodbyeInterrupted == <<"\n", "\n", "Goodbye!", "\n">>

\* main.py:76
GoodbyeQuit == <<"\n", "Goodbye!", "\n">>

\* main.py:79-80
AssistantLabel == <<"\n", "Assistant: ">>

\* A quit test that heeds the letter case.
IsQuitCommandCaseSensitive(text) == text \in QuitCommands

\* main.py:75  user_input.lower() in ("quit", "exit", "q")
IsQuitCommand(text) == lower(text) \in QuitCommands

\* The raw lines tried at the prompt: empty, blank, the quit commands in
\* several letter cases and with blanks around, two messages of which one
\* starts like a quit command.
InputLines ==
    { <<>>, <<" ", "\t">>,
      quit, <<"Q","u","I","t">>, <<" ","E","X","I","T"," ">>, <<"Q">>,
      <<" ","h","i"," ">>, <<"q","u">> }

\* main.py:36-61: the agent is created; on a ValueError the diagnostic is
\* printed and main returns; any other exception leaves main.
Startup ==
    /\ pc = "START"
    /\ \E outcome \in create_in_product_agent(env) :
          CASE outcome = "agent" ->
                  /\ pc' = "WAIT_FOR_INPUT"
                  /\ out' = Banner \o Introduction
                  /\ exc' = exc
            [] outcome = "ValueError" ->
                  /\ pc' = "CONFIG_ERROR"
                  /\ out' = Banner \o Diagnostic
                  /\ exc' = exc
            [] OTHER ->
                  /\ pc' = "RAISED"
                  /\ out' = Banner
                  /\ exc' = outcome
    /\ UNCHANGED <<team_vars, env, user_input, lines, dispatched, agent_vars>>

\* A loop that does not skip the empty input.
ClassifyWithoutEmptyCheck(text) ==
    IF IsQuitCommand(text) THEN "break" ELSE "dispatch"

\* main.py:72-77: what the loop does with the stripped input.
Classify(text) ==
    IF text = <<>> THEN "continue"
    ELSE IF IsQuitCommand(text) THEN "break"
    ELSE "dispatch"

\* main.py:67-80: input() returns a line; an empty one goes back to the
\* prompt, a quit command ends the loop, anything else is about to be
\* dispatched.
ReadLine(line) ==
    /\ pc = "WAIT_FOR_INPUT"
    /\ Len(lines) < MaxLines
    /\ lines' = Append(lines, line)
    /\ user_input' = strip(line)
    /\ CASE Classify(strip(line)) = "continue" ->
              /\ pc' = "WAIT_FOR_INPUT"
              /\ out' = Prompt
         [] Classify(strip(line)) = "break" ->
              /\ pc' = "EXIT"
              /\ out' = Prompt \o GoodbyeQuit
         [] OTHER ->
              /\ pc' = "DISPATCHING"
              /\ out' = Prompt \o AssistantLabel
    /\ UNCHANGED <<team_vars, env, exc, dispatched, agent_vars>>

\* A try that catches the end of input only.
CaughtEOFOnly == {"EOFError"}

\* main.py:68  the exceptions the try around input() catches.
CaughtAtPrompt == {"EOFError", "KeyboardInterrupt"}

\* main.py:65-70: input() raises EOFError or KeyboardInterrupt; a caught one
\* prints the goodbye and ends the loop.
PromptInterrupted(signal) ==
    /\ pc = "WAIT_FOR_INPUT"
    /\ event' = [event |-> signal]
    /\ IF signal \in CaughtAtPrompt
       THEN /\ out' = Prompt \o GoodbyeInterrupted
            /\ pc' = "EXIT"
            /\ exc' = exc
       ELSE /\ out' = Prompt
            /\ pc' = "RAISED"
            /\ exc' = signal
    /\ UNCHANGED <<team_vars, env, user_input, lines, dispatched,
                   verbose, request, n_events, final_response, in_reasoning>>

\* main.py:84: a KeyboardInterrupt while run_agent awaits the next event of
\* the stream is outside the try of lines 65-70 and is caught nowhere.
InterruptMidTurn ==
    /\ pc = "STREAMING_OUTPUT"
    /\ pc' = "RAISED"
    /\ exc' = "KeyboardInterrupt"
    /\ UNCHANGED <<team_vars, env, user_input, lines, dispatched, agent_vars, out>>

\* ------------------------------------------------------------------------
\* Specifications
\* ------------------------------------------------------------------------

\* The roster tool is not called.
TeamIdle ==
    /\ MOCK_TEAM_MEMBERS = Fixture
    /\ role_filter = None_
    /\ department_filter = None_
    /\ include_inactive = FALSE
    /\ result = <<>>

\* run_agent has not been called.
AgentIdle ==
    /\ request = <<>>
    /\ event = NoEvent
    /\ n_events = 0
    /\ final_response = <<>>
    /\ in_reasoning = FALSE

\* The session: main from its first line.
Init ==
    /\ TeamIdle
    /\ AgentIdle
    /\ verbose = TRUE
    /\ pc = "START"
    /\ env \in Environments
    /\ user_input = <<>>
    /\ exc = "none"
    /\ out = <<>>
    /\ lines = <<>>
    /\ dispatched = <<>>

\* The events the agent yields in Spec.
TurnEvents ==
    { Chunk(<<ReasoningBlock(<<"r">>)>>, <<>>),
      Chunk(<<TextBlock(<<"a">>)>>, <<>>),
      Chunk(<<>>, <<"b", "\n">>),
      ToolStart("get_team_members", TRUE, <<Item(<<"q">>, StrValue(<<"x">>))>>),
      ToolEnd }

Next ==
    \/ Startup
    \/ \E line \in InputLines : ReadLine(line)
    \/ \E signal \in {"EOFError", "KeyboardInterrupt"} : PromptInterrupted(signal)
    \/ Dispatch
    \/ \E ev \in TurnEvents : Consume(ev, MaxTurnEvents)
    \/ StreamEnd
    \/ InterruptMidTurn

Spec == Init /\ [][Next]_vars

\* One call of run_agent, on any of the events tried, verbose or not.
AgentInit ==
    /\ TeamIdle
    /\ AgentIdle
    /\ verbose \in BOOLEAN
    /\ pc = "DISPATCHING"
    /\ env = [KAPA_MCP_SERVER_URL |-> Some(<<"x">>), KAPA_API_KEY |-> Some(<<"x">>),
              OPENAI_API_KEY |-> Some(<<"x">>)]
    /\ user_input \in {<<"h","i">>, <<"q","u">>}
    /\ exc = "none"
    /\ out = Prompt \o AssistantLabel
    /\ lines = <<>>
    /\ dispatched = <<>>

AgentNext ==
    \/ Dispatch
    \/ \E ev \in Chunks \cup ToolStarts \cup {ToolEnd, ChainStart} : Consume(ev, MaxEvents)
    \/ StreamEnd

SpecAgent == AgentInit /\ [][AgentNext]_vars

\* One call of get_team_members with the arguments chosen.
TeamInit ==
    /\ MOCK_TEAM_MEMBERS \in Rosters
    /\ role_filter \in OptionalStr(RoleFilterStrs)
    /\ department_filter \in OptionalStr(DepartmentFilterStrs)
    /\ include_inactive \in BOOLEAN
    /\ result = <<>>
    /\ AgentIdle
    /\ verbose = TRUE
    /\ pc = "START"
    /\ env = [KAPA_MCP_SERVER_URL |-> None_, KAPA_API_KEY |-> None_, OPENAI_API_KEY |-> None_]
    /\ user_input = <<>>
    /\ exc = "none"
    /\ out = <<>>
    /\ lines = <<>>
    /\ dispatched = <<>>

\* team.py:145-188: the tool is called and returns.
CallGetTeamMembers ==
    /\ result = <<>>
    /\ result' = get_team_members(MOCK_TEAM_MEMBERS, role_filter,
                                  department_filter, include_inactive)
    /\ UNCHANGED <<MOCK_TEAM_MEMBERS, role_filter, department_filter, include_inactive,
                   main_vars, agent_vars, out>>

TeamNext == CallGetTeamMembers

SpecTeam == TeamInit /\ [][TeamNext]_vars

\* ------------------------------------------------------------------------
\* Claims about main (checked under Spec)
\* ------------------------------------------------------------------------

Last(seq) == seq[Len(seq)]

IsSuffix(t, seq) ==
    Len(t) <= Len(seq) /\ SubSeq(seq, Len(seq) - Len(t) + 1, Len(seq)) = t

\* The line is 'quit', 'exit' or 'q' in some letter case.
QuitWord(line) ==
    \E w \in {<<"q","u","i","t">>, <<"e","x","i","t">>, <<"q">>} :
        /\ Len(line) = Len(w)
        /\ \A i \in 1..Len(w) : LowerChar(line[i]) = w[i]

\* The last line entered is a quit command.
QuitEntered == lines # <<>> /\ QuitWord(Last(lines))

\* C4: once 'quit', 'exit' or 'q' has been entered in any letter case, the loop
\* is at EXIT and no run_agent call happens: the step that reads the command
\* and every later step leave the dispatches as they were.
C4_QuitTerminates ==
    [][QuitEntered' => (pc' = "EXIT" /\ dispatched' = dispatched /\ request' = request)]_vars

\* C4 witness: a quit command in mixed letter case ended a session that had
\* dispatched a turn before.
C4_Witness ==
    /\ pc = "EXIT"
    /\ lines # <<>>
    /\ Last(lines) = <<"Q","u","I","t">>
    /\ Len(dispatched) = 1

Signals == {"EOFError", "KeyboardInterrupt"}

\* A signal has interrupted the prompt.
Interrupted == event.event \in Signals

\* C5 as stated: a signal at the prompt leads to EXIT without a dispatch and
\* without an exception leaving main, and no interrupt ever ends a turn that
\* is under way.
C5_AsStated ==
    /\ Interrupted => (pc = "EXIT" /\ exc = "none")
    /\ exc # "KeyboardInterrupt"

\* C5 (amended): an end-of-input or interrupt signal that arrives while the
\* loop waits at the prompt prints the goodbye and moves the loop to EXIT,
\* with no dispatch and no exception leaving main; an interrupt that arrives
\* while a turn is streamed is not caught: it ends the turn by
\* leaving main as KeyboardInterrupt, and that is the only way an interrupt
\* leaves main.
C5_InterruptAtPrompt ==
    [][ /\ (Interrupted' /\ ~Interrupted) =>
             /\ pc = "WAIT_FOR_INPUT"
             /\ pc' = "EXIT"
             /\ exc' = "none"
             /\ dispatched' = dispatched
             /\ request' = request
             /\ IsSuffix(<<"Goodbye!", "\n">>, out')
        /\ (exc' = "KeyboardInterrupt" /\ exc # "KeyboardInterrupt") =>
             /\ pc = "STREAMING_OUTPUT"
             /\ pc' = "RAISED"
             /\ ~IsSuffix(<<"Goodbye!", "\n">>, out') ]_vars

\* C5 witness: a KeyboardInterrupt at the prompt, after one completed turn,
\* ended the session at EXIT.
C5_Witness ==
    /\ event.event = "KeyboardInterrupt"
    /\ pc = "EXIT"
    /\ exc = "none"
    /\ Len(dispatched) = 1

\* A variable the diagnostic names is unset or empty.
ConfigurationMissing ==
    \E v \in {"OPENAI_API_KEY", "KAPA_MCP_SERVER_URL", "KAPA_API_KEY"} :
        env[v].none \/ env[v].str = <<>>

\* C6 as stated: when a variable the diagnostic names is missing, startup
\* prints the diagnostic and main returns without raising; the prompt is never
\* shown, no line is read and the agent is never dispatched.
C6_AsStated ==
    (ConfigurationMissing /\ pc # "START") =>
        /\ pc = "CONFIG_ERROR"
        /\ exc = "none"
        /\ IsSuffix(Diagnostic, out)
        /\ lines = <<>>
        /\ dispatched = <<>>

\* What the code does check: the two variables of the documentation-search
\* service.  When one of them is missing, main prints the diagnostic and
\* returns, and the loop is never entered.
C6_SearchConfigChecked ==
    ((\E v \in {"KAPA_MCP_SERVER_URL", "KAPA_API_KEY"} : env[v].none \/ env[v].str = <<>>)
        /\ pc # "START") =>
        /\ pc = "CONFIG_ERROR"
        /\ exc = "none"
        /\ IsSuffix(Diagnostic, out)
        /\ lines = <<>>
        /\ dispatched = <<>>

\* C9: the request dispatched for a turn is exactly one message, of role user,
\* whose content is the current input, whatever the earlier turns were; and
\* the renderer starts every turn from its initial state.
C9_TurnsIndependent ==
    [][(dispatched' # dispatched) =>
          /\ Len(request') = 1
          /\ request'[1].role = "user"
          /\ request'[1].content = user_input
          /\ user_input = Last(dispatched')
          /\ final_response' = <<>>
          /\ in_reasoning' = FALSE
          /\ n_events' = 0]_vars

\* C9 witness: a second turn, with another input than the first, has just been
\* dispatched with a request of one message.
C9_Witness ==
    /\ pc = "STREAMING_OUTPUT"
    /\ Len(dispatched) = 2
    /\ dispatched[1] # dispatched[2]
    /\ n_events = 0
    /\ Len(request) = 1

\* The inputs the loop is to dispatch for the lines read: every line that is
\* not empty after trimming and is no quit command, trimmed, in input order.
RECURSIVE Dispatchable(_)
Dispatchable(ls) ==
    IF ls = <<>> THEN <<>>
    ELSE LET text == strip(Last(ls))
             before == Dispatchable(SubSeq(ls, 1, Len(ls) - 1))
         IN  IF text = <<>> \/ QuitWord(text) THEN before ELSE Append(before, text)

\* C10: the turns dispatched are exactly the dispatchable lines read, once each
\* and in input order (the last one pending while the loop is at DISPATCHING);
\* a line is read and a turn is dispatched only when no stream is being
\* consumed; a line that is empty after trimming dispatches nothing and
\* leaves the loop at WAIT_FOR_INPUT.
C10_DispatchOncePerLine ==
    /\ [](dispatched \o (IF pc = "DISPATCHING" THEN <<user_input>> ELSE <<>>)
            = Dispatchable(lines))
    /\ [][ /\ (lines' # lines) => pc = "WAIT_FOR_INPUT"
           /\ (dispatched' # dispatched) => (pc = "DISPATCHING" /\ pc' = "STREAMING_OUTPUT")
           /\ (lines' # lines /\ strip(Last(lines')) = <<>>) =>
                 (pc' = "WAIT_FOR_INPUT" /\ dispatched' = dispatched) ]_vars

\* C10 witness: two turns were dispatched and streamed, with a blank line read
\* between them, and the loop waits for input again.
C10_Witness ==
    /\ pc = "WAIT_FOR_INPUT"
    /\ lines = << <<" ","h","i"," ">>, <<" ", "\t">>, <<"q","u">> >>
    /\ dispatched = << <<"h","i">>, <<"q","u">> >>
    /\ n_events = 2

\* ------------------------------------------------------------------------
\* Claims about run_agent (checked under SpecAgent)
\* ------------------------------------------------------------------------

\* run_agent has returned.
TurnOver == pc = "WAIT_FOR_INPUT" /\ dispatched # <<>>

\* C7 as stated: at the end of every turn, for every event stream, the
\* terminal output ends with a newline.
C7_AsStated == TurnOver => endswith_newline(out)

\* What the code ensures: when the accumulated answer is not empty and does
\* not end with a newline, the turn's output ends with one.
C7_NewlineAfterAnswer ==
    (TurnOver /\ final_response # <<>> /\ Last(final_response) # "\n")
        => endswith_newline(out)

\* The string form of a tool-argument value.
StringForm(value) == value.chars

\* A value as C8 has it displayed.
Displayed(value) ==
    IF Len(StringForm(value)) <= 100
    THEN StringForm(value)
    ELSE [i \in 1..100 |-> StringForm(value)[i]] \o <<".", ".", ".">>

\* The argument lines of a tool-invocation notice as C8 has them.
RECURSIVE NoticeLines(_)
NoticeLines(items) ==
    IF items = <<>> THEN <<>>
    ELSE NoticeLines(SubSeq(items, 1, Len(items) - 1))
         \o <<"   ">> \o Last(items).key \o <<":", " ">> \o Displayed(Last(items).value)
         \o <<"\n">>

\* A tool-invocation notice with arguments has just been printed.
NoticePrinted ==
    /\ pc = "STREAMING_OUTPUT"
    /\ verbose
    /\ event.event = "on_tool_start"
    /\ event.input.is_dict
    /\ event.input.items # <<>>

\* C8: in the notice just printed, every argument value longer than 100
\* characters shows as its first 100 characters and '...', and every value of
\* at most 100 characters shows unchanged.
C8_Truncation ==
    NoticePrinted =>
        IsSuffix(<<"\n", "wrench", " Calling tool: ", event.name, "\n">>
                    \o NoticeLines(event.input.items) \o <<"\n">>,
                 out)

\* C8 witness: a notice with a value of 103 characters, cut, followed by a
\* value of exactly 100 characters.
C8_Witness ==
    /\ NoticePrinted
    /\ Len(event.input.items) = 2
    /\ Len(StringForm(event.input.items[1].value)) > 100
    /\ Len(StringForm(event.input.items[2].value)) = 100

\* The dim/italic reasoning style is open at position i of the output: it was
\* opened before i and not reset since.
StyleOpenAt(o, i) ==
    \E j \in 1..(i - 1) :
        /\ o[j] = "ESC[2m"
        /\ \A k \in (j + 1)..(i - 1) : o[k] # "ESC[0m"

\* The glyphs of answer text, of the tool-invocation notice and of the
\* tool-completion marker in the streams tried.
AnswerGlyphs == {"a", "b", "c"}
NoticeGlyphs == {"wrench"}
MarkerGlyphs == {"check"}

\* C11 as stated: once opened, the reasoning style is reset before any answer
\* text, tool-invocation notice or tool-completion marker is printed, and it
\* is not open when run_agent returns: in_reasoning is false and the output
\* does not end inside the style.
C11_AsStated ==
    /\ \A i \in 1..Len(out) :
          out[i] \in (AnswerGlyphs \cup NoticeGlyphs \cup MarkerGlyphs)
              => ~StyleOpenAt(out, i)
    /\ TurnOver => (~in_reasoning /\ ~StyleOpenAt(out, Len(out) + 1))

\* What the code does ensure: answer text and tool-invocation notices are
\* printed with the style reset, and in_reasoning tells whether the style is
\* open.
C11_ResetBeforeAnswerAndNotice ==
    /\ \A i \in 1..Len(out) :
          out[i] \in (AnswerGlyphs \cup NoticeGlyphs) => ~StyleOpenAt(out, i)
    /\ dispatched # <<>> => (in_reasoning <=> StyleOpenAt(out, Len(out) + 1))

\* The style is left open by a turn that has ended.
C11_StyleLeftOpen == TurnOver /\ in_reasoning /\ StyleOpenAt(out, Len(out) + 1)

\* The tool-completion marker is printed inside the style.
C11_MarkerInsideStyle ==
    \E i \in 1..Len(out) : out[i] \in MarkerGlyphs /\ StyleOpenAt(out, i)

====
